---- MODULE Spec2Model ----
(***************************************************************************)
(* zero-to-fib: the S-expression parser (bin/parser.py) and the stage-4    *)
(* evaluator (4-lambda/solutions/python3/evaluator.py), modelled as the    *)
(* pipeline  tokens -> parser main loop -> JSON AST -> evaluator main loop *)
(* -> stdout.  The recursive Python functions are RECURSIVE operators that *)
(* return their result together with the exception they raise (if any);    *)
(* the two __main__ loops are the actions.                                 *)
(***************************************************************************)
EXTENDS Integers, Sequences, FiniteSets, TLC

VARIABLES input, tokens, asts, pc, error, idx, stdout, heap, calls

vars == <<input, tokens, asts, pc, error, idx, stdout, heap, calls>>

(***************************************************************************)
(* Bounds.                                                                 *)
(***************************************************************************)
\* longest token sequence that is enumerated exhaustively
MaxTokens == 4
\* deepest nesting of lisp_eval calls before the interpreter gives up with
\* RecursionError (the host's recursion limit, scaled down)
MaxDepth == 10

(***************************************************************************)
(* Python values.  Every value is a record tagged with its Python type in  *)
(* field t; records of different types have different field sets or a      *)
(* different tag, so any two values can be compared.                       *)
(* A float is kept in millionths (3.14159 is 3141590); float arithmetic is *)
(* exact on the values used here.  bool is a subclass of int in Python:    *)
(* True is 1 and False is 0 in arithmetic and comparison.                  *)
(***************************************************************************)
PyNone == [t |-> "NoneType"]
PyInt(n) == [t |-> "int", n |-> n]
PyFloat(m) == [t |-> "float", n |-> m]
PyBool(b) == [t |-> "bool", n |-> IF b THEN 1 ELSE 0]
PyStr(s) == [t |-> "str", s |-> s]
PyList(xs) == [t |-> "list", items |-> xs]
PyFunction(name) == [t |-> "function", s |-> name]
\* a dict used as an environment frame is a reference into the heap
PyDict(id) == [t |-> "dict", n |-> id]

FloatScale == 1000000

\* no exception pending
NoExc == ""

(***************************************************************************)
(* bin/parser.py                                                           *)
(***************************************************************************)
\* int(token) and float(token) on the tokens that occur in the inputs;
\* every other token makes both raise ValueError.
IntLiteral == ("0" :> 0) @@ ("1" :> 1) @@ ("2" :> 2) @@ ("3" :> 3) @@ ("5" :> 5) @@ ("7" :> 7)
FloatLiteral == ("2.5" :> 2500000)

is_number(token) == token \in DOMAIN IntLiteral \/ token \in DOMAIN FloatLiteral

is_oparen(token) == token = "("

is_cparen(token) == token = ")"

\* (list[0], list[1:]) or (None, [])
behead(list) ==
    IF Len(list) = 0 THEN [head |-> PyNone, tail |-> <<>>]
    ELSE [head |-> PyStr(list[1]), tail |-> Tail(list)]

\* the result of a parse function: (ast, tokens), or the exception it raised
ParseResult(ast, toks) == [ast |-> ast, tokens |-> toks, raised |-> NoExc]
ParseRaise(msg, toks) == [ast |-> PyNone, tokens |-> toks, raised |-> msg]

UnterminatedList == "Unterminated list"
UnparseableToken == "Don't know how to parse"
LeftoverTokens == "Leftover tokens"

parse_number(toks) ==
    LET failure == ParseResult(PyNone, toks)
        b == behead(toks)
    IN  IF b.head = PyNone THEN failure
        ELSE IF b.head.s \in DOMAIN IntLiteral
             THEN ParseResult([type |-> "number", value |-> PyInt(IntLiteral[b.head.s])], b.tail)
        ELSE IF b.head.s \in DOMAIN FloatLiteral
             THEN ParseResult([type |-> "number", value |-> PyFloat(FloatLiteral[b.head.s])], b.tail)
        ELSE failure

\* parse_symbol without the is_cparen test
parse_symbol_accepts_cparen(toks) ==
    LET failure == ParseResult(PyNone, toks)
        b == behead(toks)
    IN  IF b.head = PyNone THEN failure
        ELSE IF is_number(b.head.s) \/ is_oparen(b.head.s) THEN failure
        ELSE ParseResult([type |-> "symbol", value |-> PyStr(b.head.s)], b.tail)

parse_symbol(toks) ==
    LET failure == ParseResult(PyNone, toks)
        b == behead(toks)
    IN  IF b.head = PyNone THEN failure
        ELSE IF is_number(b.head.s) \/ is_oparen(b.head.s) \/ is_cparen(b.head.s) THEN failure
        ELSE ParseResult([type |-> "symbol", value |-> PyStr(b.head.s)], b.tail)

RECURSIVE parse_list(_), parse_list_loop(_, _, _), parse_atom_or_list(_)

parse_list(toks) ==
    LET failure == ParseResult(PyNone, toks)
        b == behead(toks)
    IN  IF b.head = PyNone THEN failure
        ELSE IF ~is_oparen(b.head.s) THEN failure
        ELSE parse_list_loop(toks, b.tail, <<>>)

\* parse_list_loop returning tokens instead of tokens[1:] at the closing
\* parenthesis
parse_list_loop_keeps_cparen(orig, toks, items) ==
    IF Len(toks) = 0 THEN ParseRaise(UnterminatedList, orig)
    ELSE IF is_cparen(toks[1])
         THEN ParseResult([type |-> "list", value |-> PyList(items)], toks)
    ELSE LET r == parse_atom_or_list(toks)
         IN  IF r.raised # NoExc THEN r
             ELSE IF r.ast # PyNone THEN parse_list_loop(orig, r.tokens, Append(items, r.ast))
             ELSE ParseResult(PyNone, orig)

\* the while True loop of parse_list: orig is the token list parse_list was
\* called with, toks what is left of it, items the nodes collected so far
parse_list_loop(orig, toks, items) ==
    IF Len(toks) = 0 THEN ParseRaise(UnterminatedList, orig)
    ELSE IF is_cparen(toks[1])
         THEN ParseResult([type |-> "list", value |-> PyList(items)], Tail(toks))
    ELSE LET r == parse_atom_or_list(toks)
         IN  IF r.raised # NoExc THEN r
             ELSE IF r.ast # PyNone THEN parse_list_loop(orig, r.tokens, Append(items, r.ast))
             ELSE ParseResult(PyNone, orig)

parse_atom_or_list(toks) ==
    LET failure == ParseResult(PyNone, toks)
        l == parse_list(toks)
    IN  IF l.raised # NoExc THEN l
        ELSE IF l.ast # PyNone THEN l
        ELSE LET n == parse_number(l.tokens)
             IN  IF n.ast # PyNone THEN n
                 ELSE LET s == parse_symbol(n.tokens)
                      IN  IF s.ast # PyNone THEN s
                          ELSE failure

(***************************************************************************)
(* 4-lambda/solutions/python3/evaluator.py: primitives                     *)
(***************************************************************************)
\* the result of a call that returns a value or raises
Value(v) == [raised |-> NoExc, value |-> v]
Exc(msg) == [raised |-> msg, value |-> PyNone]

TypeError == "TypeError"
RecursionError == "RecursionError"

\* int, bool and float take part in arithmetic and ordering
IsNumeric(v) == v.t \in {"int", "bool", "float"}
Micro(v) == IF v.t = "float" THEN v.n ELSE v.n * FloatScale

\* a + b
PyAdd(a, b) ==
    IF ~(IsNumeric(a) /\ IsNumeric(b)) THEN Exc(TypeError)
    ELSE IF a.t = "float" \/ b.t = "float" THEN Value(PyFloat(Micro(a) + Micro(b)))
    ELSE Value(PyInt(a.n + b.n))

\* a - b
PySub(a, b) ==
    IF ~(IsNumeric(a) /\ IsNumeric(b)) THEN Exc(TypeError)
    ELSE IF a.t = "float" \/ b.t = "float" THEN Value(PyFloat(Micro(a) - Micro(b)))
    ELSE Value(PyInt(a.n - b.n))

\* a < b
PyLess(a, b) ==
    IF ~(IsNumeric(a) /\ IsNumeric(b)) THEN Exc(TypeError)
    ELSE Value(PyBool(Micro(a) < Micro(b)))

RECURSIVE plus_loop(_, _, _), minus_loop(_, _, _), lessthan_loop(_, _, _)

plus_loop(accum, args, i) ==
    IF i > Len(args) THEN Value(accum)
    ELSE LET r == PyAdd(accum, args[i])
         IN  IF r.raised # NoExc THEN r ELSE plus_loop(r.value, args, i + 1)

lisp_plus(args) == plus_loop(PyInt(0), args, 1)

minus_loop(accum, args, i) ==
    IF i > Len(args) THEN Value(accum)
    ELSE LET r == PySub(accum, args[i])
         IN  IF r.raised # NoExc THEN r ELSE minus_loop(r.value, args, i + 1)

lisp_minus(args) ==
    IF Len(args) = 0 THEN Value(PyInt(0))
    ELSE minus_loop(args[1], args, 2)

lessthan_loop(prev, args, i) ==
    IF i > Len(args) THEN Value(PyBool(TRUE))
    ELSE LET r == PyLess(prev, args[i])
         IN  IF r.raised # NoExc THEN r
             ELSE IF r.value = PyBool(FALSE) THEN Value(PyBool(FALSE))
             ELSE lessthan_loop(args[i], args, i + 1)

lisp_lessthan(args) ==
    IF Len(args) = 0 THEN Value(PyBool(TRUE))
    ELSE lessthan_loop(args[1], args, 2)

ParentKey == PyStr("__parent_env__")

\* the global frame; a frame is a dict, modelled as a function from keys to
\* values
g_env ==
    (PyStr("#t") :> PyBool(TRUE)) @@ (PyStr("#f") :> PyBool(FALSE))
    @@ (PyStr("pi") :> PyFloat(3141590))
    @@ (PyStr("+") :> PyFunction("lisp_plus"))
    @@ (PyStr("-") :> PyFunction("lisp_minus"))
    @@ (PyStr("<") :> PyFunction("lisp_lessthan"))

\* the heap reference of g_env
GlobalRef == PyDict(1)

SymbolNotFound == "Symbol not found"

RECURSIVE lookup(_, _, _)

\* `symbol in env` raises TypeError when env is not a container
lookup(symbol, env, h) ==
    IF env.t # "dict" THEN Exc(TypeError)
    ELSE IF symbol \in DOMAIN h[env.n] THEN Value(h[env.n][symbol])
    ELSE IF ParentKey \in DOMAIN h[env.n] THEN lookup(symbol, h[env.n][ParentKey], h)
    ELSE Exc(SymbolNotFound)

\* the host's truthiness (bool(value)) in place of the test for False
is_truthy_as_python(value) == ~(IsNumeric(value) /\ value.n = 0)

is_truthy(value) == ~(value.t = "bool" /\ value.n = 0)

LispLambda(params, statements) ==
    [t |-> "LispLambda", params |-> params, statements |-> statements]

is_lambda(value) == value.t = "LispLambda"

(***************************************************************************)
(* 4-lambda/solutions/python3/evaluator.py: lisp_eval and lisp_apply       *)
(*                                                                         *)
(* Both thread the interpreter state st = (heap, calls) through the        *)
(* recursion.  heap is the sequence of environment frames allocated so far *)
(* (heap[1] is g_env); calls is the history of lisp_eval and lisp_apply    *)
(* invocations in the order they were entered, each completed with the     *)
(* value it returned or the exception it raised.                           *)
(***************************************************************************)
Return(v, st) == [raised |-> NoExc, value |-> v, heap |-> st.heap, calls |-> st.calls]
Raise(msg, st) == [raised |-> msg, value |-> PyNone, heap |-> st.heap, calls |-> st.calls]

Pending == "pending"

EmptyListEvaluation == "Can't evaluate zero-length list."
MissingPredicate == "Missing predicate for 'if' statement."
MissingConsequent == "Missing consequent for 'if' statement."
MissingAlternative == "Missing alternative for 'if' statement."
MissingParameterList == "Missing parameter list for 'lambda' statement."
InvalidParameterList == "'lambda' arguments must be a list."
EmptyLambdaBody == "'lambda' body contains no statements."
InsufficientArguments == "Insufficient args for lambda."
UnknownNodeKind == "Don't know how to evaluate"

\* 1, 1.0 and True are the same dict key
DictKey(v) ==
    IF v.t = "float" /\ v.n % FloatScale = 0 THEN PyInt(v.n \div FloatScale)
    ELSE IF v.t = "bool" THEN PyInt(v.n)
    ELSE v

\* d[key] = value
DictSet(d, key, value) ==
    [k \in DOMAIN d \cup {DictKey(key)} |-> IF k = DictKey(key) THEN value ELSE d[k]]

\* operator(operands) for an operator that is not a LispLambda
call_function(operator, operands) ==
    IF operator.t # "function" THEN Exc(TypeError)
    ELSE IF operator.s = "lisp_plus" THEN lisp_plus(operands)
    ELSE IF operator.s = "lisp_minus" THEN lisp_minus(operands)
    ELSE lisp_lessthan(operands)

RECURSIVE bind_params(_, _, _, _)

\* the for loop over the lambda's parameters: local_env after the loop, or
\* as far as it got when the loop raised
bind_params(local_env, lambda_params, operands, i) ==
    IF i > Len(lambda_params) THEN [raised |-> NoExc, frame |-> local_env]
    ELSE LET symbol == lambda_params[i].value
         IN  IF Len(operands) < i
             THEN [raised |-> InsufficientArguments, frame |-> local_env]
             ELSE IF symbol.t = "list"
             THEN [raised |-> TypeError, frame |-> local_env]
             ELSE bind_params(DictSet(local_env, symbol, operands[i]),
                              lambda_params, operands, i + 1)

\* the bindings written to the caller's frame
BindTargetCaller(local, env) == env

\* the frame lisp_apply writes the parameter bindings to
BindTarget(local, env) == local

RECURSIVE lisp_eval(_, _, _, _), eval_list(_, _, _, _), eval_operands(_, _, _, _, _, _),
          lisp_apply(_, _, _, _, _), apply_lambda(_, _, _, _, _),
          eval_statements(_, _, _, _, _, _)

lisp_eval(ast, env, st, depth) ==
    IF depth > MaxDepth THEN Raise(RecursionError, st)
    ELSE
    LET pos == Len(st.calls) + 1
        entry == [fn |-> "lisp_eval", depth |-> depth, ast |-> ast, env |-> env,
                  raised |-> Pending, value |-> PyNone]
        st1 == [heap |-> st.heap, calls |-> Append(st.calls, entry)]
        r == IF ast.type = "number" THEN Return(ast.value, st1)
             ELSE IF ast.type = "symbol"
                  THEN LET l == lookup(ast.value, env, st1.heap)
                       IN  IF l.raised # NoExc THEN Raise(l.raised, st1)
                           ELSE Return(l.value, st1)
             ELSE IF ast.type = "list" THEN eval_list(ast, env, st1, depth)
             ELSE Raise(UnknownNodeKind, st1)
    IN  [r EXCEPT !.calls[pos] = [@ EXCEPT !.raised = r.raised, !.value = r.value]]

\* the branch of lisp_eval for a list node
eval_list(ast, env, st, depth) ==
    LET items == ast.value.items
    IN  IF Len(items) = 0 THEN Raise(EmptyListEvaluation, st)
        ELSE IF items[1].value = PyStr("if")
        THEN IF Len(items) < 2 THEN Raise(MissingPredicate, st)
             ELSE LET predicate == lisp_eval(items[2], env, st, depth + 1)
                  IN  IF predicate.raised # NoExc THEN predicate
                      ELSE IF is_truthy(predicate.value)
                      THEN IF Len(items) < 3 THEN Raise(MissingConsequent, predicate)
                           ELSE lisp_eval(items[3], env, predicate, depth + 1)
                      ELSE IF Len(items) < 4 THEN Raise(MissingAlternative, predicate)
                           ELSE lisp_eval(items[4], env, predicate, depth + 1)
        ELSE IF items[1].value = PyStr("lambda")
        THEN IF Len(items) < 2 THEN Raise(MissingParameterList, st)
             ELSE IF items[2].type # "list" THEN Raise(InvalidParameterList, st)
             ELSE IF Len(items) < 3 THEN Raise(EmptyLambdaBody, st)
             ELSE Return(LispLambda(items[2], SubSeq(items, 3, Len(items))), st)
        ELSE LET operator == lisp_eval(items[1], env, st, depth + 1)
             IN  IF operator.raised # NoExc THEN operator
                 ELSE LET operands == eval_operands(items, 2, env, operator, depth, <<>>)
                      IN  IF operands.raised # NoExc THEN operands
                          ELSE lisp_apply(operator.value, operands.value.items, env,
                                          operands, depth + 1)

\* list(map(lambda operand_ast: lisp_eval(operand_ast, env), operand_asts))
eval_operands(items, i, env, st, depth, acc) ==
    IF i > Len(items) THEN Return(PyList(acc), st)
    ELSE LET r == lisp_eval(items[i], env, st, depth + 1)
         IN  IF r.raised # NoExc THEN r
             ELSE eval_operands(items, i + 1, env, r, depth, Append(acc, r.value))

lisp_apply(operator, operands, env, st, depth) ==
    IF depth > MaxDepth THEN Raise(RecursionError, st)
    ELSE
    LET pos == Len(st.calls) + 1
        entry == [fn |-> "lisp_apply", depth |-> depth, operator |-> operator,
                  operands |-> operands, env |-> env,
                  local_env |-> IF is_lambda(operator) THEN PyDict(Len(st.heap) + 1)
                                ELSE PyNone,
                  raised |-> Pending, value |-> PyNone]
        st1 == [heap |-> st.heap, calls |-> Append(st.calls, entry)]
        r == IF is_lambda(operator) THEN apply_lambda(operator, operands, env, st1, depth)
             ELSE LET c == call_function(operator, operands)
                  IN  IF c.raised # NoExc THEN Raise(c.raised, st1)
                      ELSE Return(c.value, st1)
    IN  [r EXCEPT !.calls[pos] = [@ EXCEPT !.raised = r.raised, !.value = r.value]]

\* the branch of lisp_apply for a LispLambda: the new frame is allocated on
\* the heap, the parameters are bound, the statements evaluated in order
apply_lambda(lamb, operands, env, st, depth) ==
    LET id == Len(st.heap) + 1
        fresh == (ParentKey :> env)
        target == BindTarget(PyDict(id), env)
        h0 == Append(st.heap, fresh)
        b == bind_params(h0[target.n], lamb.params.value.items, operands, 1)
        h1 == [h0 EXCEPT ![target.n] = b.frame]
        st1 == [heap |-> h1, calls |-> st.calls]
    IN  IF b.raised # NoExc THEN Raise(b.raised, st1)
        ELSE eval_statements(lamb.statements, 1, PyDict(id), st1, depth, PyNone)

eval_statements(statements, i, local_env, st, depth, value) ==
    IF i > Len(statements) THEN Return(value, st)
    ELSE LET r == lisp_eval(statements[i], local_env, st, depth + 1)
         IN  IF r.raised # NoExc THEN r
             ELSE eval_statements(statements, i + 1, local_env, r, depth, r.value)

(***************************************************************************)
(* 4-lambda/solutions/python3/evaluator.py: lisp_print                     *)
(***************************************************************************)
RECURSIVE PadLeft(_, _), FracDigits(_, _)

PadLeft(str, width) == IF Len(str) >= width THEN str ELSE PadLeft("0" \o str, width)

\* the digits after the decimal point, without trailing zeros
FracDigits(frac, width) ==
    IF width > 1 /\ frac % 10 = 0 THEN FracDigits(frac \div 10, width - 1)
    ELSE PadLeft(ToString(frac), width)

\* str(value) for the values that reach the last branch of lisp_print.  The
\* address in a function's text and the contents in a dict's text are left
\* out.
PyStrOf(value) ==
    IF value.t = "int" THEN ToString(value.n)
    ELSE IF value.t = "float"
         THEN LET a == IF value.n < 0 THEN 0 - value.n ELSE value.n
              IN  (IF value.n < 0 THEN "-" ELSE "") \o ToString(a \div FloatScale)
                  \o "." \o FracDigits(a % FloatScale, 6)
    ELSE IF value.t = "function" THEN "<function " \o value.s \o ">"
    ELSE IF value.t = "dict" THEN "{...}"
    ELSE "None"

RECURSIVE join_params(_, _, _)

\* " ".join(params): raises TypeError at the first item that is not a str
join_params(param_asts, i, acc) ==
    IF i > Len(param_asts) THEN [raised |-> NoExc, s |-> acc]
    ELSE IF param_asts[i].value.t # "str" THEN [raised |-> TypeError, s |-> ""]
    ELSE join_params(param_asts, i + 1,
                     IF i = 1 THEN param_asts[i].value.s
                     ELSE acc \o " " \o param_asts[i].value.s)

\* no runtime value is a Python list, so the isinstance(value, list) branch
\* is never taken
lisp_print(value) ==
    IF value.t = "bool" THEN [raised |-> NoExc, s |-> IF value.n = 1 THEN "#t" ELSE "#f"]
    ELSE IF is_lambda(value)
         THEN LET j == join_params(value.params.value.items, 1, "")
              IN  IF j.raised # NoExc THEN j
                  ELSE [raised |-> NoExc, s |-> "#<lambda (" \o j.s \o ")>"]
    ELSE [raised |-> NoExc, s |-> PyStrOf(value)]

(***************************************************************************)
(* Inputs: token sequences, as tokenize() returns them.                    *)
(***************************************************************************)
TokenAlphabet == {"(", ")", "1", "+", "x"}

RECURSIVE SeqsUpTo(_, _)
SeqsUpTo(S, n) ==
    IF n = 0 THEN {<<>>}
    ELSE LET shorter == SeqsUpTo(S, n - 1)
         IN  shorter \cup {Append(q, e) : q \in {r \in shorter : Len(r) = n - 1}, e \in S}

ShortSources == SeqsUpTo(TokenAlphabet, MaxTokens)

RECURSIVE Flatten(_)
Flatten(seqs) == IF Len(seqs) = 0 THEN <<>> ELSE Head(seqs) \o Flatten(Tail(seqs))

\* the tokens of ( e1 e2 ... )
TList(es) == <<"(">> \o Flatten(es) \o <<")">>
TAtom(tok) == <<tok>>
\* the tokens of (lambda (p1 ...) s1 ...)
TLambda(params, stmts) == TList(<<TAtom("lambda"), TList(params)>> \o stmts)

\* ((lambda (p ...) s ...) a ...): a closure of 0..2 parameters applied to
\* 0..3 operands
ParamNames == {TAtom("x"), TAtom("y")}
StatementAtoms == {TAtom("x"), TAtom("y"), TAtom("1")}
ApplySources ==
    {TList(<<TLambda(ps, ss)>> \o SubSeq(<<TAtom("5"), TAtom("7"), TAtom("3")>>, 1, m)) :
        ps \in SeqsUpTo(ParamNames, 2),
        ss \in SeqsUpTo(StatementAtoms, 2) \ {<<>>},
        m \in 0..3}

\* (if), (if p), (if p c), (if p c a)
Predicates ==
    {TAtom("#t"), TAtom("#f"), TAtom("0"), TAtom("x"),
     TList(<<TAtom("<"), TAtom("1"), TAtom("2")>>),
     TList(<<TAtom("<"), TAtom("2"), TAtom("1")>>)}
Branches == {TAtom("1"), TAtom("y"), TList(<<>>)}
IfSources ==
    {TList(SubSeq(<<TAtom("if"), p, c, a>>, 1, n)) :
        p \in Predicates, c \in Branches, a \in Branches, n \in 1..4}

\* a closure that mentions the free symbol x is built where x is v1 and
\* called where x is v2:
\* ((lambda (x) ((lambda (f) ((lambda (x) (f a ...)) v2)) (lambda (p ...) x))) v1)
ScopeProgram(v1, v2, params, args) ==
    TList(<<TLambda(<<TAtom("x")>>,
                    <<TList(<<TLambda(<<TAtom("f")>>,
                                      <<TList(<<TLambda(<<TAtom("x")>>,
                                                        <<TList(<<TAtom("f")>> \o args)>>),
                                                TAtom(v2)>>)>>),
                              TLambda(params, <<TAtom("x")>>)>>)>>),
            TAtom(v1)>>)
ScopeValues == {"1", "2"}
ScopeClosures ==
    {[params |-> <<>>, args |-> <<>>],
     [params |-> <<TAtom("y")>>, args |-> <<TAtom("0")>>],
     [params |-> <<TAtom("__parent_env__")>>, args |-> <<TAtom("0")>>]}
ScopeSources ==
    {ScopeProgram(v1, v2, k.params, k.args) :
        v1 \in ScopeValues, v2 \in ScopeValues, k \in ScopeClosures}

\* programs of 1..3 top-level nodes
BatchNodes ==
    {TAtom("1"), TAtom("x"), TLambda(<<TAtom("x")>>, <<TAtom("x")>>),
     TLambda(<<TAtom("1")>>, <<TAtom("5")>>),
     TList(<<TAtom("+"), TAtom("1"), TAtom("2")>>),
     TList(<<TLambda(<<TAtom("x")>>, <<TAtom("x")>>), TAtom("7")>>)}
BatchSources == {Flatten(b) : b \in SeqsUpTo(BatchNodes, 3)}

\* lambda forms with every shape of parameter list, alone and applied
ParamShapes ==
    {TList(<<>>), TList(<<TAtom("x")>>), TList(<<TAtom("1")>>), TList(<<TList(<<>>)>>),
     TList(<<TAtom("x"), TList(<<TAtom("y")>>)>>), TAtom("x"), TAtom("1"),
     TList(<<TAtom("__parent_env__")>>)}
LambdaSources ==
    {TList(<<TAtom("lambda")>>)}
    \cup {TList(<<TAtom("lambda"), ps>>) : ps \in ParamShapes}
    \cup {TList(<<TAtom("lambda"), ps, b>>) :
            ps \in ParamShapes, b \in {TAtom("5"), TAtom("x"), TAtom("__parent_env__")}}
    \cup {TList(<<TList(<<TAtom("lambda"), ps, b>>)>> \o args) :
            ps \in ParamShapes, b \in {TAtom("5"), TAtom("x"), TAtom("__parent_env__")},
            args \in {<<>>, <<TAtom("7")>>, <<TAtom("7"), TAtom("3")>>}}

\* the examples of the primitives, unbounded recursion, a non-procedure
\* operator, a frame passed on as an operand
OtherSources ==
    {TList(<<TAtom("+"), TAtom("1"), TAtom("2"), TAtom("3")>>),
     TList(<<TAtom("+"), TAtom("pi"), TAtom("1")>>),
     TList(<<TAtom("+"), TAtom("2.5"), TAtom("2.5")>>),
     TList(<<TAtom("+"), TAtom("#t"), TAtom("#t")>>),
     TList(<<TAtom("+"), TAtom("+"), TAtom("1")>>),
     TList(<<TAtom("-")>>),
     TList(<<TAtom("-"), TAtom("5")>>),
     TList(<<TAtom("-"), TAtom("#t")>>),
     TList(<<TAtom("-"), TAtom("7"), TAtom("3"), TAtom("2")>>),
     TList(<<TAtom("-"), TAtom("1"), TAtom("pi")>>),
     TList(<<TAtom("<"), TAtom("1"), TAtom("2"), TAtom("3")>>),
     TList(<<TAtom("<"), TAtom("1"), TAtom("3"), TAtom("2")>>),
     TList(<<TAtom("<"), TAtom("5")>>),
     TList(<<TAtom("<"), TAtom("+"), TAtom("1")>>),
     TList(<<TAtom("1"), TAtom("2")>>),
     TList(<<TLambda(<<TAtom("x"), TAtom("y")>>,
                     <<TList(<<TAtom("+"), TAtom("x"), TAtom("y")>>)>>),
             TAtom("3"), TAtom("2")>>),
     TList(<<TLambda(<<TAtom("f")>>, <<TList(<<TAtom("f")>>)>>),
             TLambda(<<>>, <<TList(<<TAtom("f")>>)>>)>>),
     TList(<<TLambda(<<TAtom("x")>>,
                     <<TList(<<TAtom("if"), TAtom("x"), TAtom("y"), TAtom("1")>>)>>),
             TAtom("#f")>>),
     TList(<<TLambda(<<TAtom("x")>>,
                     <<TList(<<TAtom("if"),
                               TList(<<TAtom("<"), TAtom("x"), TAtom("1")>>),
                               TList(<<TAtom("+"), TAtom("x"), TAtom("1")>>),
                               TAtom("y")>>)>>),
             TAtom("0")>>),
     TList(<<TLambda(<<TAtom("__parent_env__")>>, <<TAtom("pi")>>),
             TList(<<TLambda(<<>>, <<TAtom("__parent_env__")>>)>>)>>),
     TList(<<TLambda(<<TAtom("x")>>,
                     <<TList(<<TLambda(<<TAtom("__parent_env__")>>, <<TAtom("x")>>),
                               TList(<<TLambda(<<TAtom("y")>>,
                                               <<TList(<<TLambda(<<>>, <<TAtom("__parent_env__")>>)>>)>>),
                                       TAtom("0")>>)>>)>>),
             TAtom("1")>>)}

Sources ==
    ShortSources \cup ApplySources \cup IfSources \cup ScopeSources \cup BatchSources
    \cup LambdaSources \cup OtherSources

(***************************************************************************)
(* The two processes.  pc is "parse" while the parser's main loop runs,    *)
(* "eval" while the evaluator's does, "done" after the evaluator has       *)
(* exited normally, "parse_raised" or "eval_raised" after an uncaught      *)
(* exception ended the parser or the evaluator (error holds it).           *)
(***************************************************************************)
Init ==
    /\ input \in Sources
    /\ tokens = input
    /\ asts = <<>>
    /\ pc = "parse"
    /\ error = NoExc
    /\ idx = 1
    /\ stdout = <<>>
    /\ heap = <<g_env>>
    /\ calls = <<>>

\* parser.py, one iteration of `while len(tokens) > 0`
ParseStep ==
    /\ pc = "parse"
    /\ Len(tokens) > 0
    /\ LET r == parse_atom_or_list(tokens)
       IN  IF r.raised # NoExc
           THEN /\ pc' = "parse_raised"
                /\ error' = r.raised
                /\ UNCHANGED <<tokens, asts>>
           ELSE IF r.ast = PyNone
           THEN /\ pc' = "parse_raised"
                /\ error' = UnparseableToken
                /\ tokens' = r.tokens
                /\ UNCHANGED asts
           ELSE /\ tokens' = r.tokens
                /\ asts' = Append(asts, r.ast)
                /\ UNCHANGED <<pc, error>>
    /\ UNCHANGED <<input, idx, stdout, heap, calls>>

\* parser.py after the loop: the leftover check, then the JSON array is
\* printed; the evaluator's json.loads gives it the same tree
ParseFinish ==
    /\ pc = "parse"
    /\ Len(tokens) = 0
    /\ IF Len(tokens) # 0
       THEN pc' = "parse_raised" /\ error' = LeftoverTokens
       ELSE pc' = "eval" /\ UNCHANGED error
    /\ UNCHANGED <<input, tokens, asts, idx, stdout, heap, calls>>

\* evaluator.py, one iteration of `for ast in asts`; the frames of the
\* previous iteration are garbage, g_env is the one object that stays
EvalStep ==
    /\ pc = "eval"
    /\ idx <= Len(asts)
    /\ LET r == lisp_eval(asts[idx], GlobalRef, [heap |-> <<heap[1]>>, calls |-> <<>>], 1)
           p == lisp_print(r.value)
       IN  /\ heap' = r.heap
           /\ calls' = r.calls
           /\ IF r.raised # NoExc
              THEN pc' = "eval_raised" /\ error' = r.raised /\ UNCHANGED <<idx, stdout>>
              ELSE IF p.raised # NoExc
              THEN pc' = "eval_raised" /\ error' = p.raised /\ UNCHANGED <<idx, stdout>>
              ELSE /\ stdout' = Append(stdout, p.s \o "\n")
                   /\ idx' = idx + 1
                   /\ UNCHANGED <<pc, error>>
    /\ UNCHANGED <<input, tokens, asts>>

\* evaluator.py, the for loop is exhausted and the process exits
EvalFinish ==
    /\ pc = "eval"
    /\ idx > Len(asts)
    /\ pc' = "done"
    /\ UNCHANGED <<input, tokens, asts, error, idx, stdout, heap, calls>>

Next == ParseStep \/ ParseFinish \/ EvalStep \/ EvalFinish

Spec == Init /\ [][Next]_vars

(***************************************************************************)
(* Properties of the parser                                                *)
(***************************************************************************)
RECURSIVE MatchingClose(_, _, _)
\* the position of the ")" that closes the "(" at toks[1], counting nesting
\* from position i at the given depth; 0 when toks ends first
MatchingClose(toks, i, depth) ==
    IF i > Len(toks) THEN 0
    ELSE IF toks[i] = "(" THEN MatchingClose(toks, i + 1, depth + 1)
    ELSE IF toks[i] = ")"
         THEN IF depth = 1 THEN i ELSE MatchingClose(toks, i + 1, depth - 1)
    ELSE MatchingClose(toks, i + 1, depth)

\* the number of "(" less the number of ")" among the first k tokens
NestingAt(toks, k) ==
    Cardinality({i \in 1..k : toks[i] = "("}) - Cardinality({i \in 1..k : toks[i] = ")"})

\* some ")" at top level has no "(" to match
StrayClose(toks) == \E k \in 1..Len(toks) : NestingAt(toks, k) < 0

\* C7: parse_list, called on any tokens that begin with "(" (here every such
\* suffix of the input, so lists at every nesting depth), raises
\* UnterminatedList exactly when the tokens end before the ")" matching that
\* "("; otherwise it returns a list node and exactly the tokens after the
\* matching ")".  The parser process ends with UnterminatedList only with
\* such an unclosed "(" in front of it.
C7_ParseListMatchesParenthesis ==
    /\ \A k \in 1..Len(input) :
          LET t == SubSeq(input, k, Len(input))
              r == parse_list(t)
              m == MatchingClose(t, 2, 1)
          IN  is_oparen(t[1]) =>
                 /\ (r.raised = UnterminatedList) <=> (m = 0)
                 /\ m # 0 => /\ r.raised = NoExc
                             /\ r.ast # PyNone
                             /\ r.ast.type = "list"
                             /\ r.tokens = SubSeq(t, m + 1, Len(t))
    /\ (pc = "parse_raised" /\ error = UnterminatedList) =>
          /\ Len(tokens) > 0
          /\ is_oparen(tokens[1])
          /\ MatchingClose(tokens, 2, 1) = 0

\* C7 witness: the main loop has parsed a list that holds a nested list and
\* is left with the tokens that follow its closing parenthesis
C7_Witness ==
    /\ pc = "parse"
    /\ Len(asts) = 1
    /\ asts[1].type = "list"
    /\ \E i \in 1..Len(asts[1].value.items) : asts[1].value.items[i].type = "list"
    /\ Len(tokens) > 0
    /\ tokens = SubSeq(input, MatchingClose(input, 2, 1) + 1, Len(input))

\* C3 as stated: a token sequence with a ")" at top level that matches no "("
\* makes the parser abort with LeftoverTokens
C3_StrayCloseIsLeftoverTokens ==
    (StrayClose(input) /\ pc # "parse") =>
        (pc = "parse_raised" /\ error = LeftoverTokens)

\* C3 amended: such a token sequence makes the parser abort inside the main
\* loop with UnparseableToken ("Don't know how to parse"), the unmatched ")"
\* being the first remaining token; LeftoverTokens is never raised
C3_StrayCloseIsUnparseableToken ==
    /\ (StrayClose(input) /\ pc # "parse") =>
          /\ pc = "parse_raised"
          /\ error = UnparseableToken
          /\ Len(tokens) > 0
          /\ is_cparen(tokens[1])
    /\ error # LeftoverTokens

\* C3 witness: a list was parsed and the ")" after it stopped the parser
C3_Witness ==
    /\ StrayClose(input)
    /\ pc = "parse_raised"
    /\ Len(asts) >= 1
    /\ asts[1].type = "list"
    /\ is_cparen(tokens[1])

(***************************************************************************)
(* Properties of the evaluator, stated on calls: the invocations of        *)
(* lisp_eval and lisp_apply made for the top-level node evaluated last.    *)
(***************************************************************************)
RECURSIVE SpanEnd(_, _, _)
\* the last position of the invocations made (directly or not) by the one at
\* position p
SpanEnd(log, p, q) ==
    IF q < Len(log) /\ log[q + 1].depth > log[p].depth THEN SpanEnd(log, p, q + 1)
    ELSE q

\* the positions of the invocations made directly by the one at position p
Kids(log, p) ==
    SelectSeq([i \in 1..Len(log) |-> i],
              LAMBDA q : /\ q > p
                         /\ q <= SpanEnd(log, p, p)
                         /\ log[q].depth = log[p].depth + 1)

SymbolNode(name) == [type |-> "symbol", value |-> PyStr(name)]

\* lisp_eval of a list headed by the given symbol
IsFormOf(e, name) ==
    /\ e.fn = "lisp_eval"
    /\ e.ast.type = "list"
    /\ Len(e.ast.value.items) >= 1
    /\ e.ast.value.items[1] = SymbolNode(name)

\* lisp_apply of a closure
IsClosureApplication(e) == e.fn = "lisp_apply" /\ e.operator.t = "LispLambda"

\* C5: lisp_eval of (if ...) evaluates item 1 once, in its own environment,
\* and then exactly the branch the predicate selects: item 2 unless the
\* predicate's value is Boolean false, item 3 if it is.  The if returns or
\* raises what the selected branch does; a missing selected branch raises
\* MissingConsequent resp. MissingAlternative; the other branch is neither
\* evaluated nor required.  (An evaluation that cannot start because the
\* stack is exhausted raises RecursionError.)
C5_IfShortCircuit ==
    \A p \in 1..Len(calls) :
        IsFormOf(calls[p], "if") =>
            LET e == calls[p]
                items == e.ast.value.items
                kids == Kids(calls, p)
            IN  IF Len(items) < 2 THEN Len(kids) = 0 /\ e.raised = MissingPredicate
                ELSE IF Len(kids) = 0 THEN e.raised = RecursionError
                ELSE LET k1 == calls[kids[1]]
                         sel == IF k1.value # PyBool(FALSE) THEN 3 ELSE 4
                     IN  /\ k1.fn = "lisp_eval" /\ k1.ast = items[2] /\ k1.env = e.env
                         /\ Len(kids) <= 2
                         /\ IF k1.raised # NoExc THEN Len(kids) = 1 /\ e.raised = k1.raised
                            ELSE IF Len(items) < sel
                            THEN /\ Len(kids) = 1
                                 /\ e.raised = IF sel = 3 THEN MissingConsequent
                                               ELSE MissingAlternative
                            ELSE IF Len(kids) = 1 THEN e.raised = RecursionError
                            ELSE LET k2 == calls[kids[2]]
                                 IN  /\ k2.fn = "lisp_eval"
                                     /\ k2.ast = items[sel]
                                     /\ k2.env = e.env
                                     /\ e.raised = k2.raised
                                     /\ e.value = k2.value

\* C5 witness: an if whose predicate is false returned its alternative
\* although its consequent is an unbound symbol
C5_Witness ==
    \E p \in 1..Len(calls) :
        /\ IsFormOf(calls[p], "if")
        /\ Len(calls[p].ast.value.items) = 4
        /\ calls[p].ast.value.items[3] = SymbolNode("y")
        /\ Len(Kids(calls, p)) = 2
        /\ calls[Kids(calls, p)[1]].value = PyBool(FALSE)
        /\ calls[p].raised = NoExc
        /\ calls[p].value = PyInt(1)

\* C9: the global frame always holds exactly its initial bindings, and the
\* frame of a closure application is a new frame, of that application
\* alone, that holds nothing but the parent link and the bindings of the
\* closure's own parameters
C9_GlobalFrameReadOnly ==
    /\ Len(heap) >= 1
    /\ heap[1] = g_env
    /\ \A p \in 1..Len(calls) :
          IsClosureApplication(calls[p]) =>
              LET a == calls[p]
                  params == a.operator.params.value.items
              IN  /\ a.local_env.n \in 2..Len(heap)
                  /\ DOMAIN heap[a.local_env.n] \subseteq
                        {ParentKey} \cup {DictKey(params[i].value) : i \in 1..Len(params)}
                  /\ \A q \in 1..Len(calls) :
                        (q # p /\ IsClosureApplication(calls[q])) =>
                            calls[q].local_env # a.local_env
    /\ \A f \in 2..Len(heap) :
          \E p \in 1..Len(calls) :
              IsClosureApplication(calls[p]) /\ calls[p].local_env = PyDict(f)

\* C9 witness: a top-level evaluation has completed in which a closure
\* application made below another one bound a parameter in its frame
C9_Witness ==
    /\ idx >= 2
    /\ Len(heap) >= 3
    /\ \E f \in 2..Len(heap) : PyStr("x") \in DOMAIN heap[f]

\* the names a closure application binds
ParamKeys(a) ==
    LET params == a.operator.params.value.items
    IN  {params[i].value : i \in 1..Len(params)}

\* C1 as stated: inside the body of an applied closure every symbol that is
\* not one of its parameters evaluates to what lookup gives for it in the
\* environment of the call site; and a closure that mentions x, built where
\* x is v1 and called where x is v2, yields v2
C1_FreeSymbolsResolveAtCallSite ==
    /\ \A p \in 1..Len(calls) :
          IsClosureApplication(calls[p]) =>
              \A q \in (p + 1)..SpanEnd(calls, p, p) :
                  LET a == calls[p]
                      e == calls[q]
                      l == lookup(e.ast.value, a.env, heap)
                  IN  (/\ e.fn = "lisp_eval"
                       /\ e.env = a.local_env
                       /\ e.ast.type = "symbol"
                       /\ e.ast.value \notin ParamKeys(a))
                      => (e.raised = l.raised /\ e.value = l.value)
    /\ \A v1 \in ScopeValues, v2 \in ScopeValues, k \in ScopeClosures :
          (input = ScopeProgram(v1, v2, k.params, k.args) /\ pc \notin {"parse", "eval"})
              => (pc = "done" /\ stdout = <<v2 \o "\n">>)

\* a list node whose items are all symbol nodes
SymbolList(node) ==
    /\ node.type = "list"
    /\ \A i \in 1..Len(node.value.items) : node.value.items[i].type = "symbol"

\* C2 as stated: lisp_eval of (lambda item1 ...) raises InvalidParameterList
\* whenever item1 is not a list of symbols, and returns a closure only with
\* a parameter list of symbols
C2_LambdaRejectsNonSymbolParameters ==
    \A p \in 1..Len(calls) :
        (IsFormOf(calls[p], "lambda") /\ Len(calls[p].ast.value.items) >= 2) =>
            LET e == calls[p]
            IN  /\ ~SymbolList(e.ast.value.items[2]) => e.raised = InvalidParameterList
                /\ e.raised = NoExc =>
                      (e.value.t = "LispLambda" /\ SymbolList(e.value.params))

\* the operand bound last to the name of parameter i (operand i, unless a
\* later parameter has the same name)
BoundOperand(a, i) ==
    LET params == a.operator.params.value.items
        last == CHOOSE j \in i..Len(params) :
                    /\ params[j].value = params[i].value
                    /\ \A r \in (j + 1)..Len(params) : params[r].value # params[i].value
    IN  a.operands[last]

\* C4 as stated: a closure of n parameters applied to m operands raises
\* InsufficientArguments without evaluating a body statement when m < n;
\* when m >= n its new frame binds every parameter to its operand, the body
\* statements are evaluated in order in that frame and the application
\* returns (or raises) what the last one evaluated does
C4_ClosureApplicationArity ==
    \A p \in 1..Len(calls) :
        IsClosureApplication(calls[p]) =>
            LET a == calls[p]
                params == a.operator.params.value.items
                stmts == a.operator.statements
                kids == Kids(calls, p)
                frame == heap[a.local_env.n]
            IN  IF Len(a.operands) < Len(params)
                THEN a.raised = InsufficientArguments /\ Len(kids) = 0
                ELSE /\ \A i \in 1..Len(params) :
                           /\ params[i].value \in DOMAIN frame
                           /\ frame[params[i].value] = BoundOperand(a, i)
                     /\ Len(kids) <= Len(stmts)
                     /\ \A j \in 1..Len(kids) :
                           /\ calls[kids[j]].fn = "lisp_eval"
                           /\ calls[kids[j]].ast = stmts[j]
                           /\ calls[kids[j]].env = a.local_env
                           /\ j < Len(kids) => calls[kids[j]].raised = NoExc
                     /\ IF Len(kids) = 0 THEN a.raised = RecursionError
                        ELSE LET last == calls[kids[Len(kids)]]
                             IN  IF last.raised = NoExc /\ Len(kids) < Len(stmts)
                                 THEN a.raised = RecursionError
                                 ELSE a.raised = last.raised /\ a.value = last.value

\* the evaluation of one top-level node against the global environment
TopLevel(ast) == lisp_eval(ast, GlobalRef, [heap |-> <<g_env>>, calls |-> <<>>], 1)

\* C6 as stated: the evaluator's output is one line per node evaluated so
\* far, in input order, each the printed value of its node; it ends normally
\* with a line for every node, and it aborts at node idx only because the
\* evaluation of that node fails
C6_OneLinePerNodeUntilFirstFailure ==
    pc \in {"eval", "done", "eval_raised"} =>
        /\ Len(stdout) = idx - 1
        /\ \A i \in 1..Len(stdout) :
              /\ TopLevel(asts[i]).raised = NoExc
              /\ stdout[i] = lisp_print(TopLevel(asts[i]).value).s \o "\n"
        /\ pc = "done" => Len(stdout) = Len(asts)
        /\ pc = "eval_raised" =>
              (idx <= Len(asts) /\ TopLevel(asts[idx]).raised # NoExc)

RECURSIVE ReachesGlobal(_, _)
\* following the parent links from frame f ends at the global frame
ReachesGlobal(h, f) ==
    \/ f = 1
    \/ /\ ParentKey \in DOMAIN h[f]
       /\ h[f][ParentKey].t = "dict"
       /\ h[f][ParentKey].n < f
       /\ ReachesGlobal(h, h[f][ParentKey].n)

RECURSIVE NearestBinding(_, _, _)
\* the binding of name in the nearest frame of the chain from frame f that
\* binds it
NearestBinding(h, name, f) ==
    IF name \in DOMAIN h[f] THEN Value(h[f][name])
    ELSE IF f = 1 THEN Exc(SymbolNotFound)
    ELSE NearestBinding(h, name, h[f][ParentKey].n)

\* C8 as stated: the parent link of the frame of a closure application is
\* the calling frame, whatever the parameters are called; the global frame
\* has no parent and every frame's chain of parents ends at it; lookup
\* returns the nearest binding or raises SymbolNotFound
C8_ParentChainReachesGlobal ==
    /\ ParentKey \notin DOMAIN heap[1]
    /\ \A p \in 1..Len(calls) :
          IsClosureApplication(calls[p]) =>
              /\ ParentKey \in DOMAIN heap[calls[p].local_env.n]
              /\ heap[calls[p].local_env.n][ParentKey] = calls[p].env
    /\ \A f \in 1..Len(heap) : ReachesGlobal(heap, f)
    /\ \A p \in 1..Len(calls) :
          (calls[p].fn = "lisp_eval" /\ calls[p].ast.type = "symbol") =>
              LET b == NearestBinding(heap, calls[p].ast.value, calls[p].env.n)
              IN  calls[p].raised = b.raised /\ calls[p].value = b.value

\* a Number, a Boolean, a Closure or a Primitive
RuntimeValue(v) == v.t \in {"int", "float", "bool", "LispLambda", "function"}

\* C10 as stated: whatever lisp_eval or lisp_apply returns, and whatever a
\* frame binds a name to, is a Number, a Boolean, a Closure or a Primitive
C10_ClosedValueSet ==
    /\ \A p \in 1..Len(calls) : calls[p].raised = NoExc => RuntimeValue(calls[p].value)
    /\ \A f \in 1..Len(heap) :
          \A k \in DOMAIN heap[f] \ {ParentKey} : RuntimeValue(heap[f][k])

====
